---- MODULE Spec2Model ----
(***************************************************************************)
(* Model of the session-scoped clipboard write coordinator of              *)
(* VibeTranscribe (services/ClipboardManager, src/unnamed/part_007) and of *)
(* the TranscriptionProcessor service that hands transcriptions to it.     *)
(*                                                                         *)
(* The renderer is single threaded: every action below is one run of       *)
(* synchronous JavaScript, from the start of a handler (or the resumption  *)
(* of an awaited call) to its next await or return.  An await of an IPC    *)
(* call (electron.writeToClipboard / readFromClipboard) or of              *)
(* navigator.clipboard.writeText completes in a later action, together     *)
(* with the effect of the call on the system clipboard; the short sleeps   *)
(* inside one attempt (10 ms, 50..150 ms) are part of that await.          *)
(* setTimeout callbacks of the queue (50 ms continuation, backoff retry)   *)
(* are timers with a remaining time; time advances to the next deadline.   *)
(***************************************************************************)
EXTENDS Integers, Sequences, FiniteSets, TLC

\* ------------------------------------------------------------------ bounds
MaxOps == 2          \* copyToClipboard calls of the callers in one run
MaxFifoOps == 3      \* the same, in the runs of SpecFifo
MaxSessions == 3     \* session ids generated in one run (constructor included)
MaxAttempts == 2     \* largest maxAttempts option passed to copyToClipboard
MaxEvents == 1       \* window events and clearClipboardData calls in one run
MaxJobs == 1         \* processAudio calls in one run
MaxRetries == 2      \* largest maxRetries option passed to processAudio
MaxBackupJobs == 2   \* processAudio calls in the runs of SpecBackup
MaxRecordings == 2   \* start requests that pass the guards of startRecording

\* ------------------------------------------------------------- time, texts
\* One millisecond is 64 time units, so that x 1.5 stays exact.
Ms(n) == n * 64
ContinueDelay == Ms(50)
MaxBackoff == Ms(5000)
DefaultInitialDelay == Ms(100)
ForceRetryDelay == Ms(100)
TranscribeRetryDelay == Ms(1000)
ProcessorMaxAttempts == 5
DefaultMaxAttempts == 5
maxVerifyAttempts == 3

\* Texts are sequences of characters; the empty sequence is ''.
Empty == << >>
Foreign == <<"x">>
\* The k-th operation of a run is given the k-th text.
TextOf(k) == IF k % 2 = 1 THEN <<"a">> ELSE <<"b", " ">>

RECURSIVE TrimStart(_)
TrimStart(t) == IF t # << >> /\ Head(t) = " " THEN TrimStart(Tail(t)) ELSE t

RECURSIVE TrimEnd(_)
TrimEnd(t) ==
  IF t # << >> /\ t[Len(t)] = " " THEN TrimEnd(SubSeq(t, 1, Len(t) - 1)) ELSE t

\* String.prototype.trim
Trim(t) == TrimEnd(TrimStart(t))

Min(a, b) == IF a < b THEN a ELSE b

\* ------------------------------------------------------------------- state
VARIABLES
  ops,                \* heap of ClipboardOperation objects, indexed by id
  operationQueue,     \* sequence of operation ids
  isProcessing,
  isFocused,
  unloadHandled,
  lastOperation,      \* operation id, 0 for null
  currentSessionId,
  nextSession,        \* next value crypto.randomUUID() returns for a session
  localStorage,       \* [lastTranscription, lastTranscriptionData], each << >> or <<v>>
  systemClipboard,    \* text on the OS clipboard
  electronAvailable,  \* window.electron exists
  quota,              \* how localStorage.setItem ends in this run, see QuotaModes
  passes,             \* processQueue passes suspended at an await
  tasks,              \* forceEmptySystemClipboard / clearSystemClipboardIfMatches runs at an await
  timers,             \* pending setTimeout callbacks, in creation order
  now,                \* Date.now(), counted in distinct readings
  processor,          \* TranscriptionProcessor: currentSessionId (0 for ''), isProcessing, currentJob (0 for null)
  jobs,               \* TranscriptionJob objects and the processAudio calls that made them
  recorder,           \* useAudioRecorder: its state and refs
  recordings,         \* the MediaRecorder objects startRecording made, and their handlers
  mainProcess,        \* electron/main.ts: process.env, the window, the last call of each handler
  app,                \* App and MicrophoneDropdown: the selected microphone, the device list
  events,             \* history: window events and clearClipboardData calls so far
  savedUnder,         \* history: texts handed to saveToLocalStorage, per session id
  trace               \* history: what the last action did

vars == << ops, operationQueue, isProcessing, isFocused, unloadHandled,
           lastOperation, currentSessionId, nextSession, localStorage,
           systemClipboard, electronAvailable, quota, passes, tasks,
           timers, now, processor, jobs, recorder, recordings, mainProcess, app,
           events, savedUnder, trace >>

\* The state as one record, so that the methods can be written as functions
\* from state to state and call one another as in the source.
State ==
  [ ops |-> ops, operationQueue |-> operationQueue, isProcessing |-> isProcessing,
    isFocused |-> isFocused, unloadHandled |-> unloadHandled,
    lastOperation |-> lastOperation, currentSessionId |-> currentSessionId,
    nextSession |-> nextSession, localStorage |-> localStorage,
    systemClipboard |-> systemClipboard, electronAvailable |-> electronAvailable,
    quota |-> quota,
    passes |-> passes, tasks |-> tasks, timers |-> timers, now |-> now,
    processor |-> processor, jobs |-> jobs,
    recorder |-> recorder, recordings |-> recordings,
    events |-> events,
    savedUnder |-> savedUnder, trace |-> << >>,
    overflow |-> FALSE ]   \* a bound of the model was exceeded in this action

Emit(S, e) == [S EXCEPT !.trace = Append(@, e)]

RemoveAt(s, i) == SubSeq(s, 1, i - 1) \o SubSeq(s, i + 1, Len(s))

InQueue(S, o) == \E i \in 1..Len(S.operationQueue) : S.operationQueue[i] = o

\* Array.prototype.shift: removes the first element, whatever it is.
Shift(q) == IF q = << >> THEN q ELSE Tail(q)

\* The calls to the main process that have not returned carry the rank in
\* which ipcRenderer.invoke sent them (field sent of a pass or a clearing
\* task); 0 marks a call of the browser API, which is no such call.
SentRanks(S) ==
  { S.passes[i].sent : i \in 1..Len(S.passes) } \cup
  { S.tasks[i].sent : i \in 1..Len(S.tasks) }

NextSent(S) ==
  1 + (CHOOSE m \in SentRanks(S) \cup {0} : \A x \in SentRanks(S) : x <= m)

\* After a call returned the ranks of the others are counted anew.
Renumber(S) ==
  LET Rank(x) == IF x = 0 THEN 0
                 ELSE Cardinality({ y \in SentRanks(S) : 0 < y /\ y <= x })
  IN [S EXCEPT
        !.passes = [i \in 1..Len(@) |-> [@[i] EXCEPT !.sent = Rank(@)]],
        !.tasks = [i \in 1..Len(@) |-> [@[i] EXCEPT !.sent = Rank(@)]]]

\* ipcMain runs the handlers of the calls in the order in which they were
\* sent: a call is handled when none that was sent before it is pending.
HandledAnyOrder(S, sent) == TRUE

HandledInOrder(S, sent) ==
  sent = 0 \/ \A x \in SentRanks(S) : x = 0 \/ sent <= x

\* ------------------------------------------------------------ localStorage
\* How the two localStorage.setItem calls of saveToLocalStorage end while
\* the application runs: both succeed, the first throws, or only the second
\* (the larger record) throws because the quota is used up.
QuotaModes == {"ok", "first", "second"}

saveToLocalStorage(S, text, sessionId) ==
  LET S1 == [S EXCEPT !.savedUnder[sessionId] = @ \cup {text}]
  IN IF S.quota = "first" THEN S1
     ELSE IF S.quota = "second"
     THEN [S1 EXCEPT !.localStorage.lastTranscription = <<text>>]
     ELSE [S1 EXCEPT !.localStorage.lastTranscription = <<text>>,
                     !.localStorage.lastTranscriptionData =
                        << [text |-> text, sessionId |-> sessionId, old |-> FALSE] >>]

\* sessionId || this.currentSessionId ; 0 stands for undefined
Target(S, sessionId) == IF sessionId = 0 THEN S.currentSessionId ELSE sessionId

\* << >> for null, <<text>> otherwise
getFromLocalStorage(S, sessionId) ==
  LET savedData == S.localStorage.lastTranscriptionData
  IN IF savedData = << >> THEN S.localStorage.lastTranscription
     ELSE IF savedData[1].sessionId = Target(S, sessionId)
          THEN << savedData[1].text >>
          ELSE << >>

\* ------------------------------------------------- operations and callbacks
\* The object copyToClipboard builds.  epoch, total, nSuccess, nError,
\* resolved and resets are history fields: the number of sessions started when
\* the operation was created, the attempts made over its lifetime, the
\* callback invocations, the state of the promise copyToClipboard returned,
\* and the times recoverLastOperation reset its attempts.
NewOperation(S, text, maxAttempts, initialDelay, sessionId, timestamp) ==
  [ text |-> text, attempts |-> 0, maxAttempts |-> maxAttempts,
    backoffDelay |-> initialDelay, timestamp |-> timestamp,
    sessionId |-> sessionId, old |-> FALSE,
    epoch |-> S.nextSession, total |-> 0, nSuccess |-> 0, nError |-> 0,
    resolved |-> "pending", resets |-> 0 ]

\* operation.onSuccess: the caller's callback, then resolve(true)
onSuccess(S, o) ==
  [S EXCEPT !.ops[o].nSuccess = @ + 1,
            !.ops[o].resolved = IF @ = "pending" THEN "true" ELSE @]

\* operation.onError: the caller's callback, then resolve(false) when the
\* attempts are used up
onError(S, o) ==
  [S EXCEPT !.ops[o].nError = @ + 1,
            !.ops[o].resolved =
               IF @ = "pending" /\ S.ops[o].attempts >= S.ops[o].maxAttempts
               THEN "false" ELSE @]

\* ------------------------------------------------------------------- sort
\* A comparator that orders by timestamp alone, newest first.
BeforeNewestOnly(S, a, b) == S.ops[b].timestamp - S.ops[a].timestamp < 0

\* A comparator that puts the current session first and then the oldest first.
BeforeOldestFirst(S, a, b) ==
  LET ca == S.ops[a].sessionId = S.currentSessionId
      cb == S.ops[b].sessionId = S.currentSessionId
  IN IF ca /\ ~cb THEN TRUE
     ELSE IF ~ca /\ cb THEN FALSE
     ELSE S.ops[a].timestamp - S.ops[b].timestamp < 0

\* The comparator of operationQueue.sort returns a negative number:
\* a goes before b.
Before(S, a, b) ==
  LET ca == S.ops[a].sessionId = S.currentSessionId
      cb == S.ops[b].sessionId = S.currentSessionId
  IN IF ca /\ ~cb THEN TRUE
     ELSE IF ~ca /\ cb THEN FALSE
     ELSE S.ops[b].timestamp - S.ops[a].timestamp < 0

\* Array.prototype.sort is stable: x goes before the first element it
\* compares strictly before.
RECURSIVE InsertSorted(_, _, _)
InsertSorted(S, x, sorted) ==
  IF sorted = << >> THEN << x >>
  ELSE IF Before(S, x, Head(sorted)) THEN << x >> \o sorted
       ELSE << Head(sorted) >> \o InsertSorted(S, x, Tail(sorted))

RECURSIVE SortFrom(_, _, _)
SortFrom(S, q, sorted) ==
  IF q = << >> THEN sorted
  ELSE SortFrom(S, Tail(q), InsertSorted(S, Head(q), sorted))

SortQueue(S) == SortFrom(S, S.operationQueue, << >>)

\* Operations of another session that are more than 10 minutes old are dropped.
FilterStale(S) ==
  LET Keep(o) == ~(S.ops[o].sessionId # S.currentSessionId /\ S.ops[o].old)
  IN SelectSeq(S.operationQueue, Keep)

\* ------------------------------------------------------------ processQueue
\* line 449 with > for >=
ExhaustedLate(S, o) == S.ops[o].attempts > S.ops[o].maxAttempts

\* line 449: operation.attempts >= operation.maxAttempts
Exhausted(S, o) == S.ops[o].attempts >= S.ops[o].maxAttempts

NextDelay(backoffDelay) == Min((backoffDelay * 3) \div 2, MaxBackoff)

\* The finally block of processQueue.
Finally(S) ==
  [S EXCEPT !.isProcessing = FALSE,
            !.timers = IF S.operationQueue # << >>
                       THEN Append(@, [kind |-> "cont", op |-> 0, rem |-> ContinueDelay])
                       ELSE @]

\* What a pass picks, recorded for the properties.
PickEvent(S, o, unsorted) ==
  LET q == S.operationQueue
      Pending(p) == \E i \in 1..Len(q) : q[i] = p
  IN [ kind |-> "pick", op |-> o,
       isCurrent |-> S.ops[o].sessionId = S.currentSessionId,
       hadCurrent |-> \E i \in 1..Len(q) : S.ops[q[i]].sessionId = S.currentSessionId,
       olderPending |-> \E p \in 1..Len(S.ops) :
                          /\ Pending(p) /\ p < o
                          /\ S.ops[p].sessionId = S.ops[o].sessionId,
       olderUnattempted |-> \E p \in 1..Len(S.ops) :
                          /\ Pending(p) /\ p < o /\ S.ops[p].total = 0
                          /\ S.ops[p].sessionId = S.ops[o].sessionId,
       earlierPending |-> \E p \in 1..Len(S.ops) :
                          /\ Pending(p)
                          /\ S.ops[p].timestamp < S.ops[o].timestamp
                          /\ S.ops[p].sessionId = S.ops[o].sessionId,
       newerPending |-> \E p \in 1..Len(S.ops) :
                          /\ Pending(p)
                          /\ S.ops[p].timestamp > S.ops[o].timestamp
                          /\ S.ops[p].sessionId = S.ops[o].sessionId,
       staleAhead |-> S.ops[Head(unsorted)].sessionId # S.currentSessionId,
       first |-> S.ops[o].total = 0,
       early |-> \E i \in 1..Len(S.timers) :
                   /\ S.timers[i].kind = "backoff"
                   /\ S.timers[i].op = o
                   /\ S.timers[i].rem > 0,
       inFlight |-> Len(S.passes) ]

\* The element operationQueue.shift() takes out (lines 529, 588 and 609):
\* the head of the queue at that moment, 0 when the queue is empty.
Removed(q) == IF q = << >> THEN 0 ELSE Head(q)

\* A catch block whose focus-loss branch leaves the operation in the queue.
HandleFailureKeepingQueued(S, o, error, native, browserTried) ==
  LET S0 == Emit(S, [kind |-> "attemptFailed", op |-> o, native |-> native,
                     focused |-> S.isFocused, browserTried |-> browserTried,
                     last |-> ~(S.ops[o].attempts < S.ops[o].maxAttempts)])
      S1 == saveToLocalStorage(S0, S.ops[o].text, S.ops[o].sessionId)
      S2 == onSuccess(S1, o)
  IN Emit([S2 EXCEPT !.lastOperation = o],
          [kind |-> "focusLoss", op |-> o, removed |-> 0])

\* The catch block of processQueue (lines 571-615), for the error thrown.
HandleFailure(S, o, error, native, browserTried) ==
  LET isFocusError == ~S.isFocused /\ ~S.electronAvailable /\ error = "NotAllowedError"
      S0 == Emit(S, [kind |-> "attemptFailed", op |-> o, native |-> native,
                     focused |-> S.isFocused, browserTried |-> browserTried,
                     last |-> ~(S.ops[o].attempts < S.ops[o].maxAttempts)])
  IN IF isFocusError
     THEN LET S1 == saveToLocalStorage(S0, S.ops[o].text, S.ops[o].sessionId)
              S2 == onSuccess(S1, o)
          IN Emit([S2 EXCEPT !.operationQueue = Shift(@), !.lastOperation = o],
                  [kind |-> "focusLoss", op |-> o,
                   removed |-> Removed(S.operationQueue)])
     ELSE IF S.ops[o].attempts < S.ops[o].maxAttempts
     THEN LET nextDelay == NextDelay(S.ops[o].backoffDelay)
          IN [S0 EXCEPT !.ops[o].backoffDelay = nextDelay,
                        !.timers = Append(@, [kind |-> "backoff", op |-> o,
                                              rem |-> nextDelay])]
     ELSE LET S1 == onError(S0, o)
              S2 == [S1 EXCEPT !.operationQueue = Shift(@)]
              S3 == saveToLocalStorage(S2, S.ops[o].text, S.ops[o].sessionId)
          IN Emit(S3, [kind |-> "finalFailure", op |-> o, saved |-> S.quota = "ok",
                       removed |-> Removed(S.operationQueue)])

\* The success path of an attempt (lines 526-536 and 554-562).
Succeed(S, o, via, wrote, verified) ==
  LET S1 == onSuccess(S, o)
      S2 == [S1 EXCEPT !.operationQueue = Shift(@), !.lastOperation = o]
      S3 == saveToLocalStorage(S2, S.ops[o].text, S.ops[o].sessionId)
  IN Emit(S3, [kind |-> "success", op |-> o, via |-> via, wrote |-> wrote,
               verified |-> verified, removed |-> Removed(S.operationQueue)])

\* processQueue up to its first await.  A pass that reaches an await is
\* added to passes; its finally block runs when the pass returns.
RECURSIVE processQueue(_)
processQueue(S) ==
  IF S.isProcessing \/ S.operationQueue = << >> THEN S
  ELSE
    LET S1 == [S EXCEPT !.isProcessing = TRUE, !.operationQueue = FilterStale(S)]
    IN IF S1.operationQueue = << >> THEN Finally(S1)
       ELSE
         LET S2 == [S1 EXCEPT !.operationQueue = SortQueue(S1)]
             o == Head(S2.operationQueue)
         IN IF Exhausted(S2, o)
            THEN LET S3 == onError(S2, o)
                     S4 == [S3 EXCEPT !.operationQueue = Shift(@), !.isProcessing = FALSE]
                 IN Finally(processQueue(Emit(S4, [kind |-> "skip", op |-> o])))
            ELSE
              LET S3 == Emit([S2 EXCEPT !.ops[o].attempts = @ + 1,
                                        !.ops[o].total = @ + 1],
                             PickEvent(S2, o, S1.operationQueue))
              IN IF S3.electronAvailable
                 THEN [S3 EXCEPT !.passes = Append(@,
                         [op |-> o, pc |-> "write", wrote |-> FALSE,
                          browserTried |-> FALSE, sent |-> NextSent(S3)])]
                 ELSE IF S3.isFocused
                 THEN [S3 EXCEPT !.passes = Append(@,
                         [op |-> o, pc |-> "browser", wrote |-> FALSE,
                          browserTried |-> TRUE, sent |-> 0])]
                 ELSE Finally(HandleFailure(S3, o, "NotAllowedError", FALSE, FALSE))

\* ------------------------------------------------------ the public methods
AddTask(S, t) ==
  [S EXCEPT !.tasks = Append(@, [kind |-> t.kind, pc |-> t.pc, sessionId |-> t.sessionId,
                                 sent |-> IF t.pc = "browser" THEN 0 ELSE NextSent(S)])]

\* forceEmptySystemClipboard up to its first await
forceEmptySystemClipboard(S) ==
  IF S.electronAvailable THEN AddTask(S, [kind |-> "forceEmpty", pc |-> "write", sessionId |-> 0])
  ELSE IF S.isFocused THEN AddTask(S, [kind |-> "forceEmpty", pc |-> "browser", sessionId |-> 0])
  ELSE S

\* clearSystemClipboardIfMatches up to its first await
clearSystemClipboardIfMatches(S, sessionId) ==
  IF S.electronAvailable
  THEN AddTask(S, [kind |-> "clearIfMatches", pc |-> "read", sessionId |-> sessionId])
  ELSE S

\* A clearClipboardData that drops every queued operation and the last one.
clearEverySession(S, sessionId) ==
  LET targetSessionId == Target(S, sessionId)
      savedData == S.localStorage.lastTranscriptionData
      S1 == [S EXCEPT
               !.operationQueue = << >>,
               !.lastOperation = 0,
               !.localStorage =
                  IF savedData # << >> /\ savedData[1].sessionId = targetSessionId
                  THEN [lastTranscription |-> << >>, lastTranscriptionData |-> << >>]
                  ELSE @]
  IN clearSystemClipboardIfMatches(S1, targetSessionId)

clearClipboardData(S, sessionId) ==
  LET targetSessionId == Target(S, sessionId)
      Keep(o) == S.ops[o].sessionId # targetSessionId
      savedData == S.localStorage.lastTranscriptionData
      S1 == [S EXCEPT
               !.operationQueue = SelectSeq(@, Keep),
               !.lastOperation =
                  IF @ # 0 /\ S.ops[@].sessionId = targetSessionId THEN 0 ELSE @,
               !.localStorage =
                  IF savedData # << >> /\ savedData[1].sessionId = targetSessionId
                  THEN [lastTranscription |-> << >>, lastTranscriptionData |-> << >>]
                  ELSE @]
  IN clearSystemClipboardIfMatches(S1, targetSessionId)

\* A startNewSession that clears the operations of the current session only.
startNewSessionOfCurrent(S) ==
  LET S1 == clearClipboardData(S, S.currentSessionId)
      S2 == forceEmptySystemClipboard(S1)
      savedData == S2.localStorage.lastTranscriptionData
  IN [S2 EXCEPT
        !.currentSessionId = S.nextSession,
        !.nextSession = @ + 1,
        !.lastOperation = 0,
        !.localStorage =
           [lastTranscription |-> << >>,
            lastTranscriptionData |->
               IF savedData # << >> /\ savedData[1].old THEN << >> ELSE savedData],
        !.savedUnder = @ @@ (S.nextSession :> {})]

startNewSession(S) ==
  LET S1 == clearClipboardData(S, S.currentSessionId)
      S2 == forceEmptySystemClipboard([S1 EXCEPT !.operationQueue = << >>])
      savedData == S2.localStorage.lastTranscriptionData
  IN [S2 EXCEPT
        !.currentSessionId = S.nextSession,
        !.nextSession = @ + 1,
        !.lastOperation = 0,
        !.localStorage =
           [lastTranscription |-> << >>,
            lastTranscriptionData |->
               IF savedData # << >> /\ savedData[1].old THEN << >> ELSE savedData],
        !.savedUnder = @ @@ (S.nextSession :> {})]

copyToClipboard(S, text, maxAttempts, initialDelay, sessionId) ==
  LET sid == Target(S, sessionId)
      id == Len(S.ops) + 1
      S1 == saveToLocalStorage(S, text, sid)
      S2 == [S1 EXCEPT
               !.ops = Append(@, NewOperation(S, text, maxAttempts, initialDelay,
                                              sid, S.now)),
               !.operationQueue = Append(@, id),
               !.lastOperation = id]
  IN IF ~S2.isProcessing THEN processQueue(S2) ELSE S2

recoverLastOperation(S, sessionId) ==
  LET targetSessionId == Target(S, sessionId)
      last == S.lastOperation
  IN IF /\ last # 0
        /\ S.ops[last].sessionId = targetSessionId
        /\ S.ops[last].attempts < S.ops[last].maxAttempts
     THEN LET S1 == [S EXCEPT
                       !.ops[last].attempts = 0,
                       !.ops[last].resets = @ + 1,
                       !.operationQueue =
                          IF InQueue(S, last) THEN @ ELSE Append(@, last)]
          IN IF ~S1.isProcessing THEN processQueue(S1) ELSE S1
     ELSE LET savedText == getFromLocalStorage(S, targetSessionId)
          IN IF savedText # << >> /\ savedText[1] # Empty
             THEN copyToClipboard(S, savedText[1], DefaultMaxAttempts, DefaultInitialDelay,
                                  targetSessionId)
             ELSE S

handleFocus(S) ==
  LET S1 == [S EXCEPT !.isFocused = TRUE]
  IN IF S1.operationQueue # << >> /\ ~S1.isProcessing
     THEN processQueue(S1)
     ELSE recoverLastOperation(S1, S1.currentSessionId)

handleBlur(S) == [S EXCEPT !.isFocused = FALSE]

handleVisibilityChange(S, visible) ==
  LET S1 == [S EXCEPT !.isFocused = visible]
  IN IF ~visible THEN S1
     ELSE IF S1.operationQueue # << >> /\ ~S1.isProcessing
     THEN processQueue(S1)
     ELSE recoverLastOperation(S1, S1.currentSessionId)

handleBeforeUnload(S) ==
  IF S.unloadHandled THEN S
  ELSE LET S1 == [S EXCEPT !.unloadHandled = TRUE]
       IN IF S1.operationQueue = << >> THEN S1
          ELSE LET S2 == [S1 EXCEPT !.operationQueue = SortQueue(S1)]
                   o == Head(S2.operationQueue)
               IN saveToLocalStorage(S2, S2.ops[o].text, S2.ops[o].sessionId)

\* --------------------------------------------------- the awaited calls end
\* Between two awaits of clipboard calls a pass (or a clearing task) reads
\* and writes no field of the manager, so consecutive clipboard calls are
\* taken as one step: the clearing write and the write of the text of an
\* attempt, and the reads and re-writes of the verification loop.

\* Results of electron.writeToClipboard for the text of an attempt:
\* {success: true} after the text was written and read back; {success:
\* false} with the clipboard untouched; {success: false} after the clearing
\* write emptied the clipboard.
WriteResults == {"ok", "failed", "cleared"}

ClipboardAfterWrite(S, text, result) ==
  IF result = "ok" THEN text
  ELSE IF result = "cleared" THEN Empty
  ELSE S.systemClipboard

\* A write of an operation's text reached (or did not reach) the system clipboard.
SysWrite(S, o, result) ==
  LET S1 == [S EXCEPT !.systemClipboard = ClipboardAfterWrite(S, S.ops[o].text, result)]
  IN IF result = "ok"
     THEN Emit(S1, [kind |-> "sysWrite", op |-> o,
                    stale |-> S.ops[o].epoch < S.nextSession])
     ELSE S1

\* The write step without the test of writeResult.success (line 484).
PassWriteDoneUnchecked(S, i, result) ==
  LET S1 == SysWrite(S, S.passes[i].op, result)
  IN [S1 EXCEPT !.passes[i].pc = "verify", !.passes[i].wrote = (result = "ok"),
                !.passes[i].sent = NextSent(S)]

\* lines 477-483: await electron.writeToClipboard(''), the 10 ms sleep and
\* await electron.writeToClipboard(operation.text) have returned
PassWriteDone(S, i, result) ==
  LET o == S.passes[i].op
      S1 == SysWrite(S, o, result)
  IN IF result = "ok"
     THEN [S1 EXCEPT !.passes[i].pc = "verify", !.passes[i].wrote = TRUE,
                     !.passes[i].sent = NextSent(S)]
     ELSE Finally(HandleFailure([S1 EXCEPT !.passes = RemoveAt(@, i)], o, "Error",
                                TRUE, S.passes[i].browserTried))

\* The verification loop (lines 493-518) from iteration verificationAttempts
\* on; reads[k] tells whether the k-th readFromClipboard succeeds, rewrites[k]
\* whether the k-th re-write does.  The result is the state and
\* verificationSuccess.
RECURSIVE VerificationLoop(_, _, _, _, _)
VerificationLoop(S, o, verificationAttempts, reads, rewrites) ==
  IF ~(verificationAttempts < maxVerifyAttempts)
  THEN [state |-> S, verificationSuccess |-> FALSE]
  ELSE IF /\ reads[verificationAttempts + 1]
          /\ S.systemClipboard # Empty
          /\ Trim(S.systemClipboard) = Trim(S.ops[o].text)
  THEN [state |-> S, verificationSuccess |-> TRUE]
  ELSE IF verificationAttempts < maxVerifyAttempts - 1
  THEN VerificationLoop(
         SysWrite(S, o, IF rewrites[verificationAttempts + 1] THEN "ok" ELSE "failed"),
         o, verificationAttempts + 1, reads, rewrites)
  ELSE VerificationLoop(S, o, verificationAttempts + 1, reads, rewrites)

\* lines 488-536: the verification loop has ended; the operation succeeded
PassVerifyDone(S, i, reads, rewrites) ==
  LET o == S.passes[i].op
      r == VerificationLoop([S EXCEPT !.passes = RemoveAt(@, i)], o, 0, reads, rewrites)
  IN Finally(Succeed(r.state, o, "electron", S.passes[i].wrote, r.verificationSuccess))

\* line 551: await navigator.clipboard.writeText(operation.text) returns or throws
BrowserResults == {"ok", "NotAllowedError", "Error"}

PassBrowserDone(S, i, result) ==
  LET o == S.passes[i].op
      S0 == [S EXCEPT !.passes = RemoveAt(@, i)]
  IN IF result = "ok"
     THEN Finally(Succeed(SysWrite(S0, o, "ok"), o, "browser", TRUE, FALSE))
     ELSE Finally(HandleFailure(S0, o, result, FALSE, TRUE))

\* forceEmptySystemClipboard (lines 178-215) and clearSystemClipboardIfMatches
\* (lines 221-241) after their clipboard calls returned; writeOk and readOk
\* tell whether the write of '' and the read succeeded.
TaskDone(S, i, writeOk, readOk) ==
  LET t == S.tasks[i]
      Gone == [S EXCEPT !.tasks = RemoveAt(@, i)]
      Cleared == [Gone EXCEPT !.systemClipboard = IF writeOk THEN Empty ELSE @]
      savedText == getFromLocalStorage(S, t.sessionId)
  IN IF t.kind = "forceEmpty" /\ t.pc = "write"
     THEN IF /\ readOk
             /\ Cleared.systemClipboard # Empty
             /\ Trim(Cleared.systemClipboard) # Empty
          THEN [Cleared EXCEPT !.timers = Append(@, [kind |-> "forceRetry", op |-> 0,
                                                       rem |-> ForceRetryDelay])]
          ELSE Cleared
     ELSE IF t.kind = "clearIfMatches"
     THEN IF /\ readOk
             /\ S.systemClipboard # Empty
             /\ savedText # << >> /\ savedText[1] # Empty
             /\ Trim(S.systemClipboard) = Trim(savedText[1])
          THEN Cleared
          ELSE Gone
     ELSE Cleared   \* the retry of forceEmptySystemClipboard, or its browser call

\* --------------------------------------------------- TranscriptionProcessor
\* A startNewSession that drops the id the clipboard manager returns.
StartNewSessionKeepingId(S) ==
  LET S1 == IF S.processor.currentSessionId # 0
            THEN clearClipboardData(S, S.processor.currentSessionId)
            ELSE S
      S2 == startNewSession(S1)
  IN [S2 EXCEPT !.processor.currentJob = 0]

\* TranscriptionProcessor.startNewSession
TranscriptionProcessor_startNewSession(S) ==
  LET cj == S.processor.currentJob
      S1 == IF cj # 0
            THEN [S EXCEPT !.jobs[cj].status = "FAILED",
                           !.jobs[cj].nError = @ + 1,
                           !.processor.isProcessing = FALSE]
            ELSE S
      S2 == IF S1.processor.currentSessionId # 0
            THEN clearClipboardData(S1, S1.processor.currentSessionId)
            ELSE S1
      S3 == startNewSession(S2)
  IN [S3 EXCEPT !.processor.currentSessionId = S3.currentSessionId,
                !.processor.currentJob = 0]

\* The object processAudio builds.  calls, outcomes, settled,
\* clipboardSuccess, retrieved, nError and nComplete are history fields: the
\* invocations of transcribeAudio and how they ended, the state of the
\* promise processAudio returned and the clipboardSuccess of its result,
\* what getFromLocalStorage returned to handleTranscriptionComplete, and
\* the invocations of the onError and onComplete options.
NewJob(S, maxRetries, sessionId) ==
  [ sessionId |-> sessionId, maxRetries |-> maxRetries, attempts |-> 0,
    status |-> "IDLE", pc |-> "start", op |-> 0, text |-> << >>,
    calls |-> 0, outcomes |-> << >>, settled |-> "pending",
    clipboardSuccess |-> FALSE, retrieved |-> << >>, nError |-> 0, nComplete |-> 0 ]

\* How an invocation of transcribeAudio ends: with the text, with an Error
\* whose message names the network or a timeout, or with another error.
TranscribeResults == {"ok", "network", "other"}

\* transcribeWithRetry up to its await of transcribeAudio
transcribeWithRetry(S, j) ==
  [S EXCEPT !.jobs[j].pc = "transcribe", !.jobs[j].calls = @ + 1]

\* executeJob up to its first await
executeJob(S, j) ==
  transcribeWithRetry([S EXCEPT !.processor.isProcessing = TRUE,
                                !.jobs[j].status = "TRANSCRIBING",
                                !.jobs[j].attempts = @ + 1], j)

\* processAudio up to its first await
processAudio(S, maxRetries) ==
  LET S1 == TranscriptionProcessor_startNewSession(S)
      j == Len(S.jobs) + 1
      S2 == [S1 EXCEPT !.jobs = Append(@, NewJob(S1, maxRetries,
                                                S1.processor.currentSessionId)),
                       !.processor.currentJob = j]
  IN executeJob(S2, j)

\* executeJob throws: its catch and finally blocks (lines 1017-1058), then
\* the catch callback of processAudio (lines 893-897).
JobFails(S, j) ==
  [S EXCEPT !.jobs[j].status = "FAILED",
            !.jobs[j].pc = "done",
            !.jobs[j].nError = @ + 1,
            !.jobs[j].settled = "rejected",
            !.processor.isProcessing = FALSE,
            !.processor.currentJob = 0]

\* The error types for which ErrorHandler registers a recovery strategy.
StrategyTypes ==
  {"MICROPHONE_ACCESS_DENIED", "API_TIMEOUT", "API_RATE_LIMIT", "UNKNOWN_ERROR"}

\* A handler that treats every error like API_TIMEOUT.
handleErrorAsTimeout(type, attemptsMade, recoverable, granted) ==
  recoverable /\ attemptsMade + 1 <= 3

\* ErrorHandler.handleError, reached through captureError: whether the
\* error was recovered.  granted tells whether getUserMedia, which the
\* strategy of MICROPHONE_ACCESS_DENIED calls, resolves.
handleError(type, attemptsMade, recoverable, granted) ==
  LET strategy == IF type \in StrategyTypes THEN type ELSE "UNKNOWN_ERROR"
  IN /\ recoverable
     /\ \/ strategy = "MICROPHONE_ACCESS_DENIED" /\ granted
        \/ strategy = "API_TIMEOUT" /\ attemptsMade + 1 <= 3
        \/ strategy = "API_RATE_LIMIT" /\ attemptsMade + 1 <= 2

\* The await of transcribeAudio ends (lines 1064-1094 and 925-996).
TranscribeDone(S, j, outcome, text) ==
  LET job == S.jobs[j]
      S1 == [S EXCEPT !.jobs[j].outcomes = Append(@, outcome)]
      appError == handleError("API_REQUEST_FAILED", job.attempts, TRUE, FALSE)
  IN IF outcome = "network" /\ job.attempts < job.maxRetries
     THEN [S1 EXCEPT !.jobs[j].pc = "retryWait",
                     !.timers = Append(@, [kind |-> "transcribeRetry", op |-> j,
                                           rem |-> TranscribeRetryDelay])]
     ELSE IF outcome # "ok"
     THEN IF ~appError THEN JobFails(S1, j)
          ELSE IF job.attempts >= job.maxRetries THEN JobFails(S1, j)
          ELSE executeJob(S1, j)
     ELSE IF job.status = "FAILED" THEN JobFails(S1, j)
     ELSE
       LET S2 == clearClipboardData([S1 EXCEPT !.jobs[j].status = "COPYING",
                                               !.jobs[j].text = text],
                                    job.sessionId)
           S3 == copyToClipboard(S2, text, ProcessorMaxAttempts, DefaultInitialDelay,
                                 job.sessionId)
       IN [S3 EXCEPT !.jobs[j].pc = "copy", !.jobs[j].op = Len(S3.ops)]

\* The await of copyToClipboard ends (lines 996-1016), the then callback of
\* processAudio runs (lines 888-892), and the recorder hands the result to
\* App.handleTranscriptionComplete.
CopyDone(S, j) ==
  LET clipboardSuccess == S.ops[S.jobs[j].op].resolved = "true"
  IN [S EXCEPT !.jobs[j].status = "COMPLETED",
               !.jobs[j].pc = "done",
               !.jobs[j].nComplete = @ + 1,
               !.jobs[j].settled = "resolved",
               !.jobs[j].clipboardSuccess = clipboardSuccess,
               !.jobs[j].retrieved =
                  IF clipboardSuccess THEN @
                  ELSE getFromLocalStorage(S, S.processor.currentSessionId),
               !.processor.isProcessing = FALSE,
               !.processor.currentJob = 0]

\* ---------------------------------------------------------- useAudioRecorder
\* The hook after its first render.  mediaRecorder, stream and analyser
\* hold the number of the recording whose object the ref points to, 0 for
\* null; audioChunks holds the numbers of the recordings whose chunk is in
\* audioChunksRef.current; error is "" for null.
IdleRecorder ==
  [ isRecording |-> FALSE, isProcessing |-> FALSE, error |-> "",
    mediaRecorder |-> 0, stream |-> 0, analyser |-> 0, audioChunks |-> {},
    hasSignificantAudio |-> FALSE, currentSessionId |-> 0 ]

\* MediaRecorder.state of recording k is 'inactive' unless k is recording.
Inactive(S, k) == S.recordings[k].state # "recording"

\* cleanup (lines 66-88)
cleanup(S) ==
  LET mr == S.recorder.mediaRecorder
      S1 == IF mr # 0 /\ ~Inactive(S, mr)
            THEN [S EXCEPT !.recordings[mr].state = "stopping"]
            ELSE S
  IN [S1 EXCEPT !.recorder.stream = 0,
                !.recorder.audioChunks = {},
                !.recorder.analyser = 0]

\* A recording is pending from the moment its MediaRecorder was started
\* until its onstop handler has completed.
Pending(S) ==
  { k \in 1..Len(S.recordings) :
      S.recordings[k].state \in {"recording", "stopping", "processing"} }

\* startRecording up to await getUserMedia (lines 159-206).  significant,
\* collected, api, dropped and processingAfter are history fields of the
\* recording: whether hasSignificantAudio was set while its analyser was
\* connected, whether its dataavailable event brought a chunk, whether its
\* onstop handler called processAudio or returned early, isProcessing at
\* the end of that early return, and the options.sessionId its onstop
\* handler passed to processAudio.
startRecording(S) ==
  IF S.recorder.isRecording \/ S.recorder.isProcessing THEN S
  ELSE
    LET S1 == cleanup(S)
        S2 == TranscriptionProcessor_startNewSession(
                [S1 EXCEPT !.recorder.error = "",
                           !.recorder.audioChunks = {},
                           !.recorder.hasSignificantAudio = FALSE])
    IN Emit([S2 EXCEPT
               !.recorder.currentSessionId = S2.processor.currentSessionId,
               !.recordings = Append(@,
                  [ state |-> "starting", significant |-> FALSE, collected |-> FALSE,
                    job |-> 0, api |-> FALSE, dropped |-> FALSE,
                    processingAfter |-> FALSE, sessionId |-> 0 ])],
            [kind |-> "start", pending |-> Pending(S),
             chunksDiscarded |-> S.recorder.audioChunks])

\* await getUserMedia returns the stream or throws (lines 207-345)
GetUserMediaDone(S, k, granted) ==
  IF granted
  THEN [S EXCEPT !.recorder.stream = k,
                 !.recorder.analyser = k,
                 !.recorder.mediaRecorder = k,
                 !.recorder.isRecording = TRUE,
                 !.recordings[k].state = "recording"]
  ELSE cleanup([S EXCEPT !.recorder.error = "Error accessing microphone",
                         !.recordings[k].state = "done"])

\* updateVisualization at the end of a check interval (lines 96-156);
\* enough tells whether the activity ratio of the interval was sufficient.
updateVisualization(S, enough) ==
  LET k == S.recorder.analyser
  IN IF k = 0 \/ ~enough \/ S.recorder.hasSignificantAudio THEN S
     ELSE [S EXCEPT !.recorder.hasSignificantAudio = TRUE,
                    !.recordings[k].significant = TRUE]

\* stopRecording (lines 347-372)
stopRecording(S) ==
  IF ~S.recorder.isRecording THEN S
  ELSE
    LET S1 == [S EXCEPT !.recorder.isRecording = FALSE]
        S2 == IF S1.recorder.currentSessionId = 0
              THEN LET T == TranscriptionProcessor_startNewSession(S1)
                   IN [T EXCEPT !.recorder.currentSessionId = T.processor.currentSessionId]
              ELSE S1
        mr == S2.recorder.mediaRecorder
    IN IF mr # 0 /\ ~Inactive(S2, mr)
       THEN [S2 EXCEPT !.recordings[mr].state = "stopping"]
       ELSE S2

\* TranscriptionProcessor.reset
reset(S) ==
  LET cj == S.processor.currentJob
      S1 == IF cj # 0 THEN clearClipboardData(S, S.jobs[cj].sessionId) ELSE S
  IN TranscriptionProcessor_startNewSession(
       [S1 EXCEPT !.processor.currentJob = 0, !.processor.isProcessing = FALSE])

\* The finally block of the onstop handler (lines 321-324).
OnstopFinally(S, k) ==
  cleanup([S EXCEPT !.recorder.isProcessing = FALSE,
                    !.recordings[k].state = "done"])

\* An early return of the onstop handler: the error is set, isProcessing is
\* reset and the finally block runs.
OnstopReturns(S, k, error) ==
  LET S1 == [S EXCEPT !.recorder.error = error,
                      !.recorder.isProcessing = FALSE]
      S2 == OnstopFinally(S1, k)
  IN [S2 EXCEPT !.recordings[k].dropped = TRUE,
                !.recordings[k].processingAfter = S2.recorder.isProcessing]

\* The events that MediaRecorder.stop queued are fired: ondataavailable
\* with a blob of the given size (lines 228-232), then onstop up to its
\* await of processAudio (lines 234-296).
onstop(S, k, size) ==
  LET S1 == [S EXCEPT
               !.recorder.audioChunks = IF size > 0 THEN @ \cup {k} ELSE @,
               !.recordings[k].collected = size > 0,
               !.recorder.isProcessing = TRUE]
      sessionId == S1.recorder.currentSessionId
  IN IF S1.recorder.audioChunks = {}
     THEN OnstopReturns(S1, k, "No audio detected")
     ELSE IF ~S1.recorder.hasSignificantAudio
     THEN OnstopReturns(S1, k, "No speech detected - please check your microphone")
     ELSE
       LET S2 == IF sessionId # S1.processor.currentSessionId
                 THEN LET T == reset(S1)
                      IN [T EXCEPT !.recorder.currentSessionId =
                                      T.processor.currentSessionId]
                 ELSE S1
           S3 == processAudio(S2, 2)
       IN [S3 EXCEPT !.recordings[k].state = "processing",
                     !.recordings[k].api = TRUE,
                     !.recordings[k].sessionId = sessionId,
                     !.recordings[k].job = Len(S3.jobs)]

\* The onstop handlers whose processAudio promise was settled continue
\* (lines 298-324).
RECURSIVE OnstopResumesFrom(_, _)
OnstopResumesFrom(S, k) ==
  IF k > Len(S.recordings) THEN S
  ELSE IF /\ S.recordings[k].state = "processing"
          /\ S.jobs[S.recordings[k].job].settled # "pending"
       THEN LET settled == S.jobs[S.recordings[k].job].settled
                S1 == IF settled = "rejected"
                      THEN [S EXCEPT !.recorder.error = "Transcription failed"]
                      ELSE S
            IN OnstopResumesFrom(OnstopFinally(S1, k), k + 1)
       ELSE OnstopResumesFrom(S, k + 1)

\* A setTimeout callback runs.
TimerFired(S, i) ==
  LET t == S.timers[i]
      S1 == [S EXCEPT !.timers = RemoveAt(@, i)]
  IN IF t.kind = "cont" THEN processQueue(S1)
     ELSE IF t.kind = "backoff"
     THEN processQueue([S1 EXCEPT !.isProcessing = FALSE])
     ELSE IF t.kind = "transcribeRetry"
     THEN transcribeWithRetry([S1 EXCEPT !.jobs[t.op].attempts = @ + 1], t.op)
     ELSE AddTask(S1, [kind |-> "forceEmpty", pc |-> "retryWrite", sessionId |-> 0])

\* The continuations of the promises that were resolved in this run of
\* JavaScript, in the order of the jobs.
RECURSIVE MicrotasksFrom(_, _)
MicrotasksFrom(S, j) ==
  IF j > Len(S.jobs) THEN S
  ELSE IF S.jobs[j].pc = "copy" /\ S.ops[S.jobs[j].op].resolved # "pending"
       THEN MicrotasksFrom(CopyDone(S, j), j + 1)
       ELSE MicrotasksFrom(S, j + 1)

Microtasks(S) == OnstopResumesFrom(MicrotasksFrom(S, 1), 1)

\* The successor state of an action, once the continuations of the promises
\* it resolved have run; nothing runs once the page was unloaded.
BecomesSettled(S) ==
  /\ ~unloadHandled
  /\ ~S.overflow
  /\ ops' = S.ops
  /\ operationQueue' = S.operationQueue
  /\ isProcessing' = S.isProcessing
  /\ isFocused' = S.isFocused
  /\ unloadHandled' = S.unloadHandled
  /\ lastOperation' = S.lastOperation
  /\ currentSessionId' = S.currentSessionId
  /\ nextSession' = S.nextSession
  /\ localStorage' = S.localStorage
  /\ systemClipboard' = S.systemClipboard
  /\ electronAvailable' = S.electronAvailable
  /\ quota' = S.quota
  /\ passes' = S.passes
  /\ tasks' = S.tasks
  /\ timers' = S.timers
  /\ now' = S.now
  /\ processor' = S.processor
  /\ jobs' = S.jobs
  /\ recorder' = S.recorder
  /\ recordings' = S.recordings
  /\ events' = S.events
  /\ savedUnder' = S.savedUnder
  /\ trace' = S.trace

BecomesRenderer(S) == BecomesSettled(Renumber(Microtasks(S)))

\* An action of the renderer leaves the main process and the components
\* of App as they are.
Becomes(S) == BecomesRenderer(S) /\ UNCHANGED << mainProcess, app >>

\* ------------------------------------------------------------------ actions
\* The state at the start of a window event or of a clearClipboardData call.
External == [State EXCEPT !.events = @ + 1, !.overflow = events >= MaxEvents]

\* The session ids a caller may pass: the callers keep the id in a ref of
\* their own, which may be the current session's or an earlier one's.
Sessions == 1..(nextSession - 1)

\* A caller awaits copyToClipboard(text, {maxAttempts, sessionId}); the call
\* is made in the same millisecond as the previous one or later.
Copy(attemptOptions, sessionOptions, limit) ==
  \E text \in {TextOf(Len(ops) + 1)}, maxAttempts \in attemptOptions,
     sessionId \in sessionOptions, later \in BOOLEAN :
    /\ Len(ops) < limit
    /\ later => \E o \in 1..Len(ops) : ops[o].timestamp = now
    /\ Becomes(copyToClipboard([State EXCEPT !.now = IF later THEN @ + 1 ELSE @],
                            text, maxAttempts, DefaultInitialDelay, sessionId))

CopyToClipboard == Copy(1..MaxAttempts, Sessions, MaxOps)

\* The event of a clearClipboardData call records the state the call found.
ClearClipboardData ==
  \E sessionId \in Sessions :
    Becomes(Emit(clearClipboardData(External, sessionId),
                 [kind |-> "clear", sessionId |-> sessionId,
                  queue |-> operationQueue, lastOperation |-> lastOperation,
                  localStorage |-> localStorage,
                  currentSessionId |-> currentSessionId]))

\* The event of a startNewSession call records the queue, the last
\* operation and the session ids generated before the call.
StartNewSession ==
  /\ nextSession <= MaxSessions
  /\ Becomes(Emit(startNewSession(State),
                  [kind |-> "newSession", queue |-> operationQueue,
                   lastOperation |-> lastOperation, sessions |-> Sessions]))

HandleFocus == Becomes(handleFocus(External))

HandleBlur == Becomes(handleBlur(External))

HandleVisibilityChange ==
  \E visible \in BOOLEAN :
    Becomes(handleVisibilityChange(External, visible))

HandleBeforeUnload ==
  /\ ~unloadHandled
  /\ Becomes(handleBeforeUnload(External))

PassResumes ==
  \E i \in 1..Len(passes) :
    \/ /\ passes[i].pc = "write"
       /\ \E result \in WriteResults : Becomes(PassWriteDone(State, i, result))
    \/ /\ passes[i].pc = "verify"
       /\ \E reads \in [1..maxVerifyAttempts -> BOOLEAN],
             rewrites \in [1..(maxVerifyAttempts - 1) -> BOOLEAN] :
            Becomes(PassVerifyDone(State, i, reads, rewrites))
    \/ /\ passes[i].pc = "browser"
       /\ \E result \in BrowserResults : Becomes(PassBrowserDone(State, i, result))

TaskResumes ==
  \E i \in 1..Len(tasks), writeOk \in BOOLEAN, readOk \in BOOLEAN :
    Becomes(TaskDone(State, i, writeOk, readOk))

\* An onstop handler of the recorder awaits processAudio(blob, {maxRetries});
\* every call makes a session of its own.
Process(retryOptions, limit) ==
  \E maxRetries \in retryOptions :
    /\ Len(jobs) < limit
    /\ nextSession < MaxSessions + limit
    /\ Becomes(processAudio(State, maxRetries))

ProcessAudio == Process(1..MaxRetries, MaxJobs)

\* An invocation of transcribeAudio returns the text or throws.
Transcribe(results, texts) ==
  \E j \in 1..Len(jobs), outcome \in results, text \in texts :
    /\ jobs[j].pc = "transcribe"
    /\ Becomes(TranscribeDone(State, j, outcome, text))

TranscribeEnds == Transcribe(TranscribeResults, {TextOf(1), TextOf(2)})

\* The main process handles the next call and the call succeeds.
NativeCallSucceeds ==
  \/ \E i \in 1..Len(passes) :
       /\ HandledInOrder(State, passes[i].sent)
       /\ \/ /\ passes[i].pc = "write"
             /\ Becomes(PassWriteDone(State, i, "ok"))
          \/ /\ passes[i].pc = "verify"
             /\ Becomes(PassVerifyDone(State, i, [k \in 1..maxVerifyAttempts |-> TRUE],
                                       [k \in 1..(maxVerifyAttempts - 1) |-> TRUE]))
  \/ \E i \in 1..Len(tasks) :
       /\ HandledInOrder(State, tasks[i].sent)
       /\ tasks[i].pc # "browser"
       /\ Becomes(TaskDone(State, i, TRUE, TRUE))

\* The main process handles the next call: the write of the text of an
\* attempt fails or succeeds, every other call succeeds.
NativeCallEnds ==
  \/ \E i \in 1..Len(passes), result \in {"ok", "failed"} :
       /\ HandledInOrder(State, passes[i].sent)
       /\ passes[i].pc = "write"
       /\ Becomes(PassWriteDone(State, i, result))
  \/ NativeCallSucceeds

\* The record button, the global hotkey or the 'vibe-start-recording'
\* event asks for a recording.
StartRequest ==
  /\ Len(recordings) < MaxRecordings
  /\ Becomes(startRecording(State))

GetUserMediaEnds ==
  \E k \in 1..Len(recordings), granted \in BOOLEAN :
    /\ recordings[k].state = "starting"
    /\ Becomes(GetUserMediaDone(State, k, granted))

\* An animation frame at the end of a check interval.
AnimationFrame ==
  /\ recorder.analyser # 0
  /\ \E enough \in BOOLEAN : Becomes(updateVisualization(State, enough))

\* The button, Escape or the stop hotkey.
StopRequest == Becomes(stopRecording(State))

RecorderStops ==
  \E k \in 1..Len(recordings), size \in {0, 1} :
    /\ recordings[k].state = "stopping"
    /\ Becomes(onstop(State, k, size))

\* The earliest pending timer that is due fires.
TimerFires ==
  \E i \in 1..Len(timers) :
    /\ timers[i].rem = 0
    /\ \A j \in 1..(i - 1) : timers[j].rem # 0
    /\ Becomes(TimerFired(State, i))

\* Time passes until the next timer is due.
Advance ==
  /\ timers # << >>
  /\ \A i \in 1..Len(timers) : timers[i].rem > 0
  /\ LET d == CHOOSE d \in {timers[i].rem : i \in 1..Len(timers)} :
                \A i \in 1..Len(timers) : d <= timers[i].rem
         S == State
     IN Becomes([S EXCEPT
          !.timers = [i \in 1..Len(timers) |-> [timers[i] EXCEPT !.rem = @ - d]],
          !.now = IF \E o \in 1..Len(ops) : ops[o].timestamp = now THEN @ + 1 ELSE @])

\* More than ten minutes pass with no timer pending.
LongWait ==
  /\ timers = << >>
  /\ tasks = << >>
  /\ LET S == State
     IN Becomes([S EXCEPT
          !.ops = [o \in 1..Len(ops) |-> [ops[o] EXCEPT !.old = TRUE]],
          !.localStorage.lastTranscriptionData =
             IF @ = << >> THEN @ ELSE << [@[1] EXCEPT !.old = TRUE] >>,
          !.now = IF \E o \in 1..Len(ops) : ops[o].timestamp = now THEN @ + 1 ELSE @])

\* ------------------------------------------------------------ main process
\* electron/main.ts (src/unnamed/part_000).  The name of an environment
\* variable is the sequence of its parts, 'VITE_OPENAI_API_KEY' being
\* <<"VITE_", "OPENAI_API_KEY">>, so that startsWith('VITE_') reads the head
\* and replace('VITE_', '') of such a name is its tail.  The value of a
\* variable is << >> when it is unset, else the one-element sequence that
\* names the variable the value was given to.
ConfigNames ==
  {"OPENAI_API_KEY", "OPENAI_API_BASE_URL", "OPENAI_API_TIMEOUT", "OPENAI_WHISPER_MODEL"}

ConfigPrefixes == { << >>, <<"VITE_">>, <<"MAIN_", "VITE_">>, <<"PRELOAD_", "VITE_">> }

allowedEnvVars == { p \o <<n>> : p \in ConfigPrefixes, n \in ConfigNames }

\* The variables the environment of a run may set, and the keys the
\* renderer may ask for.
EnvironmentKeys ==
  { <<"OPENAI_API_KEY">>, <<"VITE_", "OPENAI_API_KEY">>,
    <<"MAIN_", "VITE_", "OPENAI_API_KEY">>, <<"PATH">>, <<"VITE_", "PATH">> }

RequestedKeys ==
  { p \o <<n>> : p \in ConfigPrefixes \cup { <<"VITE_", "VITE_">> },
                 n \in {"OPENAI_API_KEY", "PATH"} }

RawEnvironments == [EnvironmentKeys -> BOOLEAN]

\* process.env[key]
Lookup(env, key) == IF key \in DOMAIN env THEN env[key] ELSE << >>

\* The mapping of the prefixed variables at start-up (lines 72-104), for
\* the variables of EnvironmentKeys.
mapEnvironment(set) ==
  LET env == [k \in EnvironmentKeys |-> IF set[k] THEN <<k>> ELSE << >>]
      main == <<"MAIN_", "VITE_", "OPENAI_API_KEY">>
      vite == <<"VITE_", "OPENAI_API_KEY">>
      plain == <<"OPENAI_API_KEY">>
      env1 == IF env[main] # << >> /\ env[plain] = << >>
              THEN [env EXCEPT ![plain] = env[main]] ELSE env
  IN IF env1[plain] = << >> /\ env1[vite] # << >>
     THEN [env1 EXCEPT ![plain] = env1[vite]] ELSE env1

\* The value '' of a variable that is set to the empty string, and the test
\* the mapping applies to a value: '' and undefined are falsy.
EmptyString == << << >> >>

Truthy(value) == value # << >> /\ value # EmptyString

Plain(name) == <<name>>
MainVite(name) == <<"MAIN_", "VITE_", name>>
Vite(name) == <<"VITE_", name>>

\* The variables the mapping reads and writes.
MappingKeys ==
  UNION { {Plain(n), MainVite(n), Vite(n)} : n \in ConfigNames }

\* The mapping of OPENAI_API_KEY (lines 73-84): two if statements.
mapApiKey(env) ==
  LET n == "OPENAI_API_KEY"
      env1 == IF Truthy(env[MainVite(n)]) /\ ~Truthy(env[Plain(n)])
              THEN [env EXCEPT ![Plain(n)] = env[MainVite(n)]] ELSE env
  IN IF ~Truthy(env1[Plain(n)]) /\ Truthy(env1[Vite(n)])
     THEN [env1 EXCEPT ![Plain(n)] = env1[Vite(n)]] ELSE env1

\* A mapping that looks at the VITE_ variable before the MAIN_VITE_ one.
mapOptionViteFirst(env, n) ==
  IF Truthy(env[Vite(n)]) /\ ~Truthy(env[Plain(n)])
  THEN [env EXCEPT ![Plain(n)] = env[Vite(n)]]
  ELSE IF Truthy(env[MainVite(n)]) /\ ~Truthy(env[Plain(n)])
  THEN [env EXCEPT ![Plain(n)] = env[MainVite(n)]]
  ELSE env

\* The mapping of one of the other three names (lines 87-103): if, else if.
mapOption(env, n) ==
  IF Truthy(env[MainVite(n)]) /\ ~Truthy(env[Plain(n)])
  THEN [env EXCEPT ![Plain(n)] = env[MainVite(n)]]
  ELSE IF Truthy(env[Vite(n)]) /\ ~Truthy(env[Plain(n)])
  THEN [env EXCEPT ![Plain(n)] = env[Vite(n)]]
  ELSE env

\* The whole mapping of the main process at start-up (lines 72-104).
mapConfiguration(env) ==
  mapOption(mapOption(mapOption(mapApiKey(env), "OPENAI_API_BASE_URL"),
                      "OPENAI_API_TIMEOUT"),
            "OPENAI_WHISPER_MODEL")

\* process.env once dotenv has loaded the file: every variable is unset, set
\* to the empty string or set to a value.  The variables of OPENAI_API_KEY
\* and of one other name vary, the rest are unset.
ValueStates == {"unset", "empty", "value"}

ValueOf(key, state) ==
  CASE state = "unset" -> << >>
    [] state = "empty" -> EmptyString
    [] OTHER -> <<key>>

LoadedEnvironments ==
  { [k \in MappingKeys |->
       IF k = Plain("OPENAI_API_KEY") THEN ValueOf(k, a[1])
       ELSE IF k = MainVite("OPENAI_API_KEY") THEN ValueOf(k, a[2])
       ELSE IF k = Vite("OPENAI_API_KEY") THEN ValueOf(k, a[3])
       ELSE IF k = Plain(n) THEN ValueOf(k, b[1])
       ELSE IF k = MainVite(n) THEN ValueOf(k, b[2])
       ELSE IF k = Vite(n) THEN ValueOf(k, b[3])
       ELSE << >>] :
      n \in ConfigNames \ {"OPENAI_API_KEY"},
      a \in [1..3 -> ValueStates], b \in [1..3 -> ValueStates] }

\* ipcMain.handle('get-env') (lines 404-443); << >> is undefined.
getEnvHandler(env, key) ==
  LET nonPrefixedKey == Tail(key)
  IN IF Head(key) = "VITE_" /\ Lookup(env, key) = << >>
        /\ Lookup(env, nonPrefixedKey) # << >>
     THEN Lookup(env, nonPrefixedKey)
     ELSE IF key \in allowedEnvVars THEN Lookup(env, key) ELSE << >>

\* ipcMain.handle('write-to-clipboard') (lines 332-402).  An attempt writes
\* the text and reads the clipboard back: the text read equals the text
\* written, or differs from it, or one of the two calls throws.
WriteOutcomes == {"match", "mismatch", "throw"}
HandlerMaxRetries == 3

VerifiedUnlessThrown(outcome) == outcome # "throw"

\* clipboardContent === text
Verified(outcome) == outcome = "match"

ClipboardAfter(clip, text, outcome) ==
  CASE outcome = "match" -> text
    [] outcome = "mismatch" -> Foreign
    [] OTHER -> clip

\* The while loop: success, the attempts made and the clipboard at its end.
RECURSIVE WriteAttempts(_, _, _, _)
WriteAttempts(text, outcomes, retryCount, clip) ==
  IF retryCount >= HandlerMaxRetries
  THEN [success |-> FALSE, writes |-> retryCount, clipboard |-> clip]
  ELSE LET outcome == outcomes[retryCount + 1]
           c == ClipboardAfter(clip, text, outcome)
       IN IF Verified(outcome)
          THEN [success |-> TRUE, writes |-> retryCount + 1, clipboard |-> c]
          ELSE WriteAttempts(text, outcomes, retryCount + 1, c)

\* The arguments the renderer may pass: a string or undefined.
WriteArguments ==
  { [isString |-> TRUE, text |-> t] : t \in {Empty, TextOf(1)} }
    \cup { [isString |-> FALSE, text |-> Empty] }

\* The handler: text.length throws for undefined, clipboard.clear() may
\* throw, and the outer catch turns every error into {success: false, error}.
writeToClipboardHandler(clip, arg, clearThrows, outcomes) ==
  IF ~arg.isString
  THEN [ requested |-> TRUE, arg |-> arg, outcomes |-> outcomes,
         settled |-> "fulfilled", success |-> FALSE, error |-> TRUE,
         writes |-> 0, clipboard |-> clip ]
  ELSE LET r == WriteAttempts(arg.text, outcomes, 0,
                              IF clearThrows THEN clip ELSE Empty)
       IN [ requested |-> TRUE, arg |-> arg, outcomes |-> outcomes,
            settled |-> "fulfilled", success |-> r.success, error |-> ~r.success,
            writes |-> r.writes, clipboard |-> r.clipboard ]

IdleWrite ==
  [ requested |-> FALSE, arg |-> [isString |-> TRUE, text |-> Empty],
    outcomes |-> [k \in 1..HandlerMaxRetries |-> "match"],
    settled |-> "none", success |-> FALSE, error |-> FALSE,
    writes |-> 0, clipboard |-> Empty ]

\* hotkey is the last press of CommandOrControl+Shift+R: the window before
\* and after the callback of the shortcut, and whether the renderer's
\* listener ran.
IdleHotkey ==
  [ pressed |-> FALSE, minimized |-> FALSE, focused |-> FALSE,
    minimizedAfter |-> FALSE, focusedAfter |-> FALSE, delivered |-> FALSE ]

\* The main process once createWindow has run.  loaded and mapped are
\* history fields: process.env as dotenv left it, and whether the mapping of
\* the prefixed variables has run.
IdleMainProcess ==
  [ env |-> [k \in EnvironmentKeys |-> << >>],
    loaded |-> [k \in EnvironmentKeys |-> << >>],
    mapped |-> TRUE,
    getEnv |-> [key |-> << >>, value |-> << >>],
    write |-> IdleWrite,
    minimized |-> FALSE,
    hotkey |-> IdleHotkey ]

\* ------------------------------------------------- App, MicrophoneDropdown
\* Device 1 is the device whose deviceId is 'default'; 0 is null.  available
\* lists the microphones enumerateDevices reports, one per hardware id;
\* userSelected and restarted are history: the microphone the user selected
\* last, and whether the application was started again since.
DefaultDevice == 1
Devices == 1..3

DeviceLists ==
  { s \in UNION { [1..n -> Devices] : n \in 0..2 } :
      \A i, j \in 1..Len(s) : i # j => s[i] # s[j] }

MountedApp ==
  [ running |-> TRUE, selectedMicrophoneId |-> 0, devices |-> << >>,
    hasInitialized |-> FALSE, error |-> FALSE, available |-> <<DefaultDevice>>,
    userSelected |-> 0, restarted |-> FALSE,
    listeners |-> [start |-> << >>, stop |-> << >>],
    subscriptions |-> << >>,
    invoked |-> [channel |-> "", callbacks |-> {}, removed |-> {}] ]

InList(d, s) == \E i \in 1..Len(s) : s[i] = d

\* getMicrophones of MicrophoneDropdown (lines 56-144)
getMicrophones(A, granted) ==
  IF A.hasInitialized /\ Len(A.devices) > 0 THEN A
  ELSE IF ~granted \/ A.available = << >> THEN [A EXCEPT !.error = TRUE]
  ELSE [A EXCEPT
          !.devices = A.available,
          !.selectedMicrophoneId =
             IF @ # 0 THEN @
             ELSE IF InList(DefaultDevice, A.available) THEN DefaultDevice
             ELSE A.available[1],
          !.hasInitialized = TRUE]

\* handleSelectDevice, handleSelectMicrophone of App (lines 103-105)
handleSelectMicrophone(A, deviceId) ==
  [A EXCEPT !.selectedMicrophoneId = deviceId,
            !.userSelected = deviceId,
            !.restarted = FALSE]

\* The callback of electron.onStartRecording (useAudioRecorder, lines 396-419)
onStartRecording(S, selectedMicrophoneId) ==
  IF selectedMicrophoneId = 0
  THEN [S EXCEPT !.recorder.error = "Please select a microphone first"]
  ELSE IF S.recorder.isProcessing \/ S.recorder.isRecording THEN S
  ELSE startRecording(S)

\* ----------------------------------------------------------------- preload
\* The listeners of ipcRenderer on 'start-recording' and 'stop-recording'
\* are kept in listeners: fn is the identity of the function that was
\* registered and callback the subscription whose callback it calls.
\* subscriptions and invoked are history fields: the calls of
\* onStartRecording and onStopRecording so far, with whether the function
\* each returned has been called, and the callbacks the last event invoked,
\* with those among them whose subscription had been removed.
MaxSubscriptions == 3

\* EventEmitter.removeListener: removes the most recently added listener
\* that is the given function, if there is one.
removeListener(list, fn) ==
  LET matches == { i \in 1..Len(list) : list[i].fn = fn }
  IN IF matches = {} THEN list
     ELSE RemoveAt(list, CHOOSE i \in matches : \A k \in matches : k <= i)

\* onStartRecording of the bridge (lines 86-102): callback n is wrapped in
\* handleStartRecording, which is registered.
preloadOnStartRecording(A) ==
  LET n == Len(A.subscriptions) + 1
  IN [A EXCEPT
        !.subscriptions = Append(@, [channel |-> "start-recording",
                                     unsubscribed |-> FALSE]),
        !.listeners.start = Append(@, [fn |-> <<"handleStartRecording", n>>,
                                       callback |-> n])]

\* onStopRecording of the bridge (lines 103-113): callback n is wrapped in
\* an arrow function, which is registered.
preloadOnStopRecording(A) ==
  LET n == Len(A.subscriptions) + 1
  IN [A EXCEPT
        !.subscriptions = Append(@, [channel |-> "stop-recording",
                                     unsubscribed |-> FALSE]),
        !.listeners.stop = Append(@, [fn |-> <<"arrow", n>>, callback |-> n])]

\* The function that onStartRecording or onStopRecording returned for
\* subscription n is called (lines 98-101 and 109-112): the first removes
\* handleStartRecording, the second is given the callback itself.
unsubscribe(A, n) ==
  LET A1 == [A EXCEPT !.subscriptions[n].unsubscribed = TRUE]
  IN IF A.subscriptions[n].channel = "start-recording"
     THEN [A1 EXCEPT !.listeners.start =
                        removeListener(@, <<"handleStartRecording", n>>)]
     ELSE [A1 EXCEPT !.listeners.stop =
                        removeListener(@, <<"callback", n>>)]

\* ipcRenderer emits an event of the channel: every listener runs and calls
\* its callback.
emit(A, channel) ==
  LET list == IF channel = "start-recording" THEN A.listeners.start
              ELSE A.listeners.stop
      callbacks == { list[i].callback : i \in 1..Len(list) }
  IN [A EXCEPT !.invoked =
        [channel |-> channel, callbacks |-> callbacks,
         removed |-> { n \in callbacks : A.subscriptions[n].unsubscribed }]]

\* ------------------------------------------- actions of the main process
rendererVars == << ops, operationQueue, isProcessing, isFocused, unloadHandled,
                   lastOperation, currentSessionId, nextSession, localStorage,
                   electronAvailable, quota, passes, tasks, timers, now,
                   processor, jobs, recorder, recordings, events, savedUnder,
                   trace >>

\* The renderer invokes 'get-env'.
GetEnv ==
  \E key \in RequestedKeys :
    /\ mainProcess' = [mainProcess EXCEPT
         !.getEnv = [key |-> key, value |-> getEnvHandler(mainProcess.env, key)]]
    /\ UNCHANGED << rendererVars, systemClipboard, app >>

\* The module of the main process is loaded: the prefixed variables are
\* mapped (lines 72-104) before any handler is registered.
MapEnvironment ==
  /\ ~mainProcess.mapped
  /\ mainProcess' = [mainProcess EXCEPT !.env = mapConfiguration(@),
                                        !.mapped = TRUE]
  /\ UNCHANGED << rendererVars, systemClipboard, app >>

\* The renderer invokes 'write-to-clipboard'.
WriteToClipboard ==
  \E arg \in WriteArguments, clearThrows \in BOOLEAN,
     outcomes \in [1..HandlerMaxRetries -> WriteOutcomes] :
    LET r == writeToClipboardHandler(systemClipboard, arg, clearThrows, outcomes)
    IN /\ mainProcess' = [mainProcess EXCEPT !.write = r]
       /\ systemClipboard' = r.clipboard
       /\ UNCHANGED << rendererVars, app >>

\* The user presses CommandOrControl+Shift+R (lines 255-262): the callback
\* sends 'start-recording' and the listener of the renderer runs.
HotkeyPressed ==
  /\ app.running
  /\ Len(recordings) < MaxRecordings
  /\ mainProcess' = [mainProcess EXCEPT
       !.hotkey = [ pressed |-> TRUE,
                    minimized |-> mainProcess.minimized,
                    focused |-> isFocused,
                    minimizedAfter |-> mainProcess.minimized,
                    focusedAfter |-> isFocused,
                    delivered |-> electronAvailable ]]
  /\ app' = app
  /\ BecomesRenderer(IF electronAvailable
                     THEN onStartRecording(State, app.selectedMicrophoneId)
                     ELSE State)

\* The user minimizes the window, which loses the focus it had.
MinimizeWindow ==
  /\ ~mainProcess.minimized
  /\ mainProcess' = [mainProcess EXCEPT !.minimized = TRUE]
  /\ app' = app
  /\ BecomesRenderer(IF isFocused THEN handleBlur(State) ELSE State)

\* The user restores the window from the taskbar; it gets the focus.
RestoreWindow ==
  /\ mainProcess.minimized
  /\ mainProcess' = [mainProcess EXCEPT !.minimized = FALSE]
  /\ app' = app
  /\ BecomesRenderer(handleFocus(State))

\* The user clicks the window, or another one.
WindowFocused ==
  /\ ~mainProcess.minimized
  /\ ~isFocused
  /\ Becomes(handleFocus(State))

WindowBlurred ==
  /\ isFocused
  /\ Becomes(handleBlur(State))

\* The effect of MicrophoneDropdown runs getMicrophones.
GetMicrophones ==
  \E granted \in BOOLEAN :
    /\ app.running
    /\ app' = getMicrophones(app, granted)
    /\ UNCHANGED << rendererVars, systemClipboard, mainProcess >>

\* The user picks a microphone of the list.
SelectMicrophone ==
  \E i \in 1..Len(app.devices) :
    /\ app.running
    /\ app' = handleSelectMicrophone(app, app.devices[i])
    /\ UNCHANGED << rendererVars, systemClipboard, mainProcess >>

\* The application is closed: the state of its components is gone.
QuitApplication ==
  /\ app.running
  /\ app' = [app EXCEPT !.running = FALSE, !.selectedMicrophoneId = 0,
                        !.devices = << >>, !.hasInitialized = FALSE,
                        !.error = FALSE]
  /\ UNCHANGED << rendererVars, systemClipboard, mainProcess >>

\* The application is started: App mounts with useState(null) (line 16).
StartApplication ==
  /\ ~app.running
  /\ app' = [MountedApp EXCEPT !.available = app.available,
                               !.userSelected = app.userSelected,
                               !.restarted = app.userSelected # 0]
  /\ UNCHANGED << rendererVars, systemClipboard, mainProcess >>

\* A microphone is plugged in or removed.
DevicesChange ==
  \E a \in DeviceLists :
    /\ a # app.available
    /\ app' = [app EXCEPT !.available = a]
    /\ UNCHANGED << rendererVars, systemClipboard, mainProcess >>

\* The effect of useAudioRecorder (lines 389-435), or any other caller of
\* the bridge, subscribes to a channel.
OnStartRecording ==
  /\ Len(app.subscriptions) < MaxSubscriptions
  /\ app' = preloadOnStartRecording(app)
  /\ UNCHANGED << rendererVars, systemClipboard, mainProcess >>

OnStopRecording ==
  /\ Len(app.subscriptions) < MaxSubscriptions
  /\ app' = preloadOnStopRecording(app)
  /\ UNCHANGED << rendererVars, systemClipboard, mainProcess >>

\* The cleanup of the effect calls a function the bridge returned.
Unsubscribe ==
  \E n \in 1..Len(app.subscriptions) :
    /\ ~app.subscriptions[n].unsubscribed
    /\ app' = unsubscribe(app, n)
    /\ UNCHANGED << rendererVars, systemClipboard, mainProcess >>

\* The main process sends 'start-recording' or 'stop-recording' to the window.
RecordingEvent ==
  \E channel \in {"start-recording", "stop-recording"} :
    /\ app' = emit(app, channel)
    /\ app' # app
    /\ UNCHANGED << rendererVars, systemClipboard, mainProcess >>

\* ----------------------------------------------------------- specifications
\* The state once the module has been loaded: the field initialisers ran
\* (session 1), the constructor called startNewSession (session 2) and
\* processQueue on the empty queue, and the clearing of the system clipboard
\* that startNewSession began has ended, with or without effect.
\* localStorage may hold the record a previous run of the application left
\* less than five minutes ago.
InitManager ==
  /\ electronAvailable \in BOOLEAN
  /\ quota \in QuotaModes
  /\ isFocused \in BOOLEAN
  /\ ops = << >>
  /\ operationQueue = << >>
  /\ isProcessing = FALSE
  /\ unloadHandled = FALSE
  /\ lastOperation = 0
  /\ currentSessionId = 2
  /\ nextSession = 3
  /\ localStorage \in
       { [lastTranscription |-> << >>, lastTranscriptionData |-> d] :
           d \in { << >>, << [text |-> <<"a">>, sessionId |-> 0, old |-> FALSE] >> } }
  /\ systemClipboard = Foreign
  /\ passes = << >>
  /\ tasks = << >>
  /\ timers = << >>
  /\ now = 1
  /\ recorder = IdleRecorder
  /\ recordings = << >>
  /\ events = 0
  /\ savedUnder = [s \in 0..2 |-> IF s = 0 /\ localStorage.lastTranscriptionData # << >>
                                  THEN {<<"a">>} ELSE {}]
  /\ trace = << >>

\* The manager on its own, before a TranscriptionProcessor uses it.
Init ==
  /\ InitManager
  /\ processor = [currentSessionId |-> 0, isProcessing |-> FALSE, currentJob |-> 0]
  /\ jobs = << >>
  /\ mainProcess = IdleMainProcess
  /\ app = MountedApp

\* Every operation of the manager, in any order.
Next ==
  \/ CopyToClipboard
  \/ ClearClipboardData
  \/ StartNewSession
  \/ HandleFocus
  \/ HandleBlur
  \/ HandleVisibilityChange
  \/ HandleBeforeUnload
  \/ PassResumes
  \/ TaskResumes
  \/ TimerFires
  \/ Advance
  \/ LongWait

Spec == Init /\ [][Next]_vars

\* localStorage is empty and accepts every write.
InitQueue ==
  /\ Init
  /\ quota = "ok"
  /\ localStorage.lastTranscriptionData = << >>

\* The queue on its own: callers copy, attempts end, timers fire.
NextQueue ==
  \/ CopyToClipboard
  \/ PassResumes
  \/ TimerFires
  \/ Advance

SpecQueue == InitQueue /\ [][NextQueue]_vars

\* One copy of a caller, and the window gaining and losing focus.
NextWindow ==
  \/ (ops = << >> /\ CopyToClipboard)
  \/ HandleFocus
  \/ HandleBlur
  \/ HandleVisibilityChange
  \/ PassResumes
  \/ TimerFires
  \/ Advance

SpecWindow == InitQueue /\ [][NextWindow]_vars

\* One copy of a caller, sessions starting and being cleared, with every
\* way localStorage may fail.
NextSession ==
  \/ (ops = << >> /\ CopyToClipboard)
  \/ StartNewSession
  \/ ClearClipboardData
  \/ PassResumes
  \/ TaskResumes
  \/ TimerFires
  \/ Advance

\* The window has the focus and no earlier run left a record in localStorage.
InitSession ==
  /\ Init
  /\ isFocused
  /\ localStorage.lastTranscriptionData = << >>

SpecSession == InitSession /\ [][NextSession]_vars

\* Copies of the callers under the current session and under an earlier
\* one, each attempted once, and a clearClipboardData call for either
\* session; the desktop window has the focus and localStorage accepts every
\* write.
NextClear ==
  \/ Copy({1}, Sessions, MaxOps)
  \/ ClearClipboardData
  \/ PassResumes
  \/ TaskResumes
  \/ TimerFires
  \/ Advance

InitClear ==
  /\ Init
  /\ quota = "ok"
  /\ electronAvailable
  /\ isFocused

SpecClear == InitClear /\ [][NextClear]_vars

\* Several copies, each with a single attempt.
NextFifo ==
  \/ Copy({1}, Sessions, MaxFifoOps)
  \/ PassResumes
  \/ TimerFires
  \/ Advance

SpecFifo == InitQueue /\ [][NextFifo]_vars

\* The application has started: the processor holds the session that the
\* last startNewSession of the start-up made current.
InitRenderer ==
  /\ InitManager
  /\ processor = [currentSessionId |-> currentSessionId, isProcessing |-> FALSE,
                  currentJob |-> 0]
  /\ jobs = << >>

InitProcessor ==
  /\ InitRenderer
  /\ mainProcess = IdleMainProcess
  /\ app = MountedApp

InitAuto ==
  /\ InitProcessor
  /\ electronAvailable

\* The onstop handler of a recording awaits processAudio with isProcessing
\* set, so that the next recording starts after the promise has settled.
NoJobUnsettled == \A k \in 1..Len(jobs) : jobs[k].settled # "pending"

\* Recordings are transcribed and copied one after the other; every call to
\* the main process succeeds and the window gains and loses focus.
NextAuto ==
  \/ (NoJobUnsettled /\ ProcessAudio)
  \/ TranscribeEnds
  \/ NativeCallSucceeds
  \/ HandleFocus
  \/ HandleBlur
  \/ TimerFires
  \/ Advance

SpecAuto == InitAuto /\ [][NextAuto]_vars

InitBackup ==
  /\ InitAuto
  /\ quota = "ok"
  /\ isFocused

\* A recording whose transcription succeeds and whose clipboard writes may
\* fail, and the recordings stopped after it, which are still being
\* transcribed; localStorage accepts every write.
NextBackup ==
  \/ Process({1}, MaxBackupJobs)
  \/ (Len(jobs) = 1 /\ Transcribe({"ok"}, {TextOf(1)}))
  \/ NativeCallEnds
  \/ TimerFires
  \/ Advance

SpecBackup == InitBackup /\ [][NextBackup]_vars

\* The recorder: start and stop requests at any moment, the events of the
\* media devices in any order, transcriptions that end either way.
NextRecorder ==
  \/ StartRequest
  \/ GetUserMediaEnds
  \/ AnimationFrame
  \/ StopRequest
  \/ RecorderStops
  \/ TranscribeEnds
  \/ TimerFires
  \/ Advance

\* The page runs without the Electron API and its window is not focused:
\* the clipboard manager starts no clipboard call and keeps every text in
\* localStorage.
InitRecorder ==
  /\ InitProcessor
  /\ ~electronAvailable
  /\ ~isFocused
  /\ quota = "ok"

SpecRecorder == InitRecorder /\ [][NextRecorder]_vars

\* The desktop application: the Electron API is there, the window has the
\* focus and localStorage is empty and accepts every write.
InitDesktop ==
  /\ InitRenderer
  /\ electronAvailable
  /\ isFocused
  /\ quota = "ok"
  /\ localStorage.lastTranscriptionData = << >>

\* The 'get-env' handler under every environment and every requested key.
InitEnv ==
  /\ InitDesktop
  /\ app = MountedApp
  /\ mainProcess \in { [IdleMainProcess EXCEPT !.env = mapEnvironment(set)] :
                         set \in RawEnvironments }

SpecEnv == InitEnv /\ [][GetEnv]_vars

\* The main process starts under every loaded environment, maps it, and
\* answers the 'get-env' calls of the renderer.
InitMapping ==
  /\ InitDesktop
  /\ app = MountedApp
  /\ mainProcess \in { [IdleMainProcess EXCEPT !.env = e, !.loaded = e,
                                                !.mapped = FALSE] :
                         e \in LoadedEnvironments }

NextMapping ==
  \/ MapEnvironment
  \/ (mainProcess.mapped /\ GetEnv)

SpecMapping == InitMapping /\ [][NextMapping]_vars

\* The 'write-to-clipboard' handler under every argument and every course
\* of its three attempts.
InitHandler ==
  /\ InitDesktop
  /\ app = MountedApp
  /\ mainProcess = IdleMainProcess

SpecHandler == InitHandler /\ [][WriteToClipboard]_vars

\* The application is used, closed and started again while microphones
\* come and go.
InitMicrophone ==
  /\ InitDesktop
  /\ mainProcess = IdleMainProcess
  /\ app \in { [MountedApp EXCEPT !.available = a] : a \in DeviceLists }

NextMicrophone ==
  \/ GetMicrophones
  \/ SelectMicrophone
  \/ QuitApplication
  \/ StartApplication
  \/ DevicesChange

SpecMicrophone == InitMicrophone /\ [][NextMicrophone]_vars

\* The global hotkey at any moment of a recording, with the window
\* minimized, in the background or focused.
\* The calls that clear the system clipboard for a new session are still
\* with the main process.
NextHotkey ==
  \/ HotkeyPressed
  \/ MinimizeWindow
  \/ RestoreWindow
  \/ WindowFocused
  \/ WindowBlurred
  \/ GetMicrophones
  \/ GetUserMediaEnds
  \/ StopRequest
  \/ RecorderStops

SpecHotkey == InitHandler /\ [][NextHotkey]_vars

\* The promise of one copy while sessions start and are cleared, in the
\* focused window of the desktop application.
InitPromise ==
  /\ InitQueue
  /\ electronAvailable
  /\ isFocused

SpecPromise == InitPromise /\ [][NextSession]_vars

\* The first write-to-clipboard call of an operation fails.
FirstWriteFails ==
  \E i \in 1..Len(passes) :
    /\ HandledInOrder(State, passes[i].sent)
    /\ passes[i].pc = "write"
    /\ ops[passes[i].op].attempts = 1
    /\ Becomes(PassWriteDone(State, i, "failed"))

\* Recordings in the desktop application: every transcription succeeds and
\* every call to the main process succeeds, but for the first write of an
\* operation, which may fail.
NextProcessing ==
  \/ StartRequest
  \/ GetUserMediaEnds
  \/ AnimationFrame
  \/ StopRequest
  \/ RecorderStops
  \/ Transcribe({"ok"}, {TextOf(1)})
  \/ FirstWriteFails
  \/ NativeCallSucceeds
  \/ TimerFires
  \/ Advance

SpecProcessing == InitHandler /\ [][NextProcessing]_vars

\* A caller of the processor starts a session or resets it (startRecording
\* and the onstop handler do so between the recordings).
ProcessorStartNewSession ==
  /\ nextSession < MaxSessions + MaxBackupJobs
  /\ Becomes(TranscriptionProcessor_startNewSession(State))

ProcessorReset ==
  /\ nextSession < MaxSessions + MaxBackupJobs
  /\ Becomes(reset(State))

\* The processor on its own in the desktop application: audio is handed
\* over, sessions are started and reset while jobs wait for their
\* transcription, every call to the main process succeeds.
NextProcessor ==
  \/ Process({1, 2}, MaxBackupJobs)
  \/ ProcessorStartNewSession
  \/ ProcessorReset
  \/ TranscribeEnds
  \/ NativeCallSucceeds
  \/ TimerFires
  \/ Advance

SpecProcessor == InitHandler /\ [][NextProcessor]_vars

\* The bridge of the preload script: subscriptions to the two channels,
\* their removal, and events of the main process.
NextBridge ==
  \/ OnStartRecording
  \/ OnStopRecording
  \/ Unsubscribe
  \/ RecordingEvent

SpecBridge == InitHandler /\ [][NextBridge]_vars

\* --------------------------------------------------------------- properties
\* The events of the last action of the given kind.
Events(kind) == { i \in 1..Len(trace) : trace[i].kind = kind }

\* C1: at most one processQueue pass is in flight (between picking an
\* operation and finishing its attempt) in every reachable state.
C1_OnePassInFlight == Len(passes) <= 1

\* C2: over its whole lifetime every operation is attempted at most
\* maxAttempts times.
C2_AttemptsBounded ==
  \A o \in 1..Len(ops) : ops[o].total <= ops[o].maxAttempts

\* C2 (amended): the attempts counter of an operation never exceeds
\* maxAttempts, and an operation is attempted at most maxAttempts times
\* between two resets of the counter by recoverLastOperation: at most
\* maxAttempts x (1 + resets) times over its lifetime.
C2_AttemptsBoundedPerReset ==
  \A o \in 1..Len(ops) :
    /\ ops[o].attempts <= ops[o].maxAttempts
    /\ ops[o].total <= ops[o].maxAttempts * (1 + ops[o].resets)

\* An operation that recoverLastOperation reset was attempted more than
\* maxAttempts times.
C2_Witness ==
  \E o \in 1..Len(ops) : ops[o].resets > 0 /\ ops[o].total > ops[o].maxAttempts

\* C3: when the maxAttempts-th attempt of an operation fails, and not by
\* loss of focus, onError was invoked, the promise is resolved false, the
\* operation is no longer in the queue and getFromLocalStorage(op.sessionId)
\* returns op.text.
C3_FinalFailureReported ==
  \A i \in Events("finalFailure") :
    LET o == trace[i].op
    IN /\ ops[o].nError > 0
       /\ ops[o].resolved = "false"
       /\ ~InQueue(State, o)
       /\ getFromLocalStorage(State, ops[o].sessionId) = << ops[o].text >>

\* C4: an operation written through the native API is reported successful
\* only if a verification read returned content equal to its text.
C4_SuccessOnlyIfVerified ==
  \A i \in Events("success") : trace[i].via = "electron" => trace[i].verified

\* C4 (amended): an operation written through the native API is reported
\* successful only if electron.writeToClipboard(op.text) reported success in
\* that attempt; a verification that never matched does not prevent it.
C4_SuccessOnlyIfWritten ==
  \A i \in Events("success") : trace[i].via = "electron" => trace[i].wrote

\* A native write is reported successful although no verification read matched.
C4_Witness ==
  \E i \in Events("success") :
    trace[i].via = "electron" /\ trace[i].wrote /\ ~trace[i].verified

\* C5: after startNewSession returned, no text of an operation enqueued
\* before that call is written to the system clipboard.
C5_NoWriteOfOldOperation ==
  \A i \in Events("sysWrite") : ~trace[i].stale

\* C6: for every session id s, getFromLocalStorage(s) returns null or a
\* text that was saved under s.
C6_KeyedBySession ==
  \A s \in 1..(nextSession - 1) :
    LET r == getFromLocalStorage(State, s)
    IN r = << >> \/ r[1] \in savedUnder[s]

\* C7: whenever a pass picks the operation to attempt and the queue holds an
\* operation of the current session, the operation picked is of the current
\* session.
C7_CurrentSessionFirst ==
  \A i \in Events("pick") : trace[i].hadCurrent => trace[i].isCurrent

\* A pass picks an operation of the current session from a queue whose first
\* element was an operation of another session.
C7_Witness ==
  \E i \in Events("pick") :
    trace[i].hadCurrent /\ trace[i].staleAhead /\ trace[i].isCurrent

\* C8: if A and B of the same session are both pending and A was enqueued
\* before B, A is attempted before B: no pass picks an operation while an
\* operation of its session that was enqueued earlier has had no attempt.
C8_FifoPerSession ==
  \A i \in Events("pick") : ~trace[i].olderUnattempted

\* C8 (amended): the pending operations of a session are attempted newest
\* first: no pass picks an operation while an operation of its session with
\* a later timestamp is pending.
C8_NewestFirstPerSession ==
  \A i \in Events("pick") : ~trace[i].newerPending

\* A pass picks an operation although an operation of its session with an
\* earlier timestamp is pending.
C8_Witness ==
  \E i \in Events("pick") : trace[i].earlierPending

\* C9: after a failed attempt that is not the last, the next attempt of the
\* operation does not start before its backoff delay has elapsed.
C9_BackoffElapsed ==
  \A i \in Events("pick") : ~trace[i].early

\* C10: when the native write of an attempt fails and the window is
\* focused, the browser clipboard API is tried in that attempt before the
\* attempt counts as failed.
C10_BrowserTriedAfterNative ==
  \A i \in Events("attemptFailed") :
    (trace[i].native /\ trace[i].focused) => trace[i].browserTried

C12_BackupRetrievable ==
  \A j \in 1..Len(jobs) :
    (jobs[j].settled = "resolved" /\ ~jobs[j].clipboardSuccess)
    => jobs[j].retrieved = << jobs[j].text >>

\* C13: the onstop handler of a recording calls processAudio only if a chunk
\* of that recording was collected and hasSignificantAudio was set during
\* that recording; a handler that does not call it sets an error, makes no
\* job and leaves isProcessing false.
C13_SilenceSkipsApi ==
  \A k \in 1..Len(recordings) :
    /\ recordings[k].api => (recordings[k].collected /\ recordings[k].significant)
    /\ recordings[k].dropped =>
         (recordings[k].job = 0 /\ ~recordings[k].processingAfter)

\* C17: a start request that arrives while a recording is pending (its
\* MediaRecorder was started and its onstop handler has not completed)
\* passes no guard of startRecording: it starts no session, asks for no
\* stream and resets none of the refs of the pending recording.
C17_StartIgnoredWhilePending ==
  \A i \in Events("start") : trace[i].pending = {}

\* C14: for a job with maxRetries = N, transcribeAudio is invoked at most N
\* times; every invocation but the last failed with an error classified as
\* network or timeout; an error of another kind is the last outcome of the
\* job, which fails with it.
C14_RetriesOnlyOnNetworkErrors ==
  \A j \in 1..Len(jobs) :
    /\ jobs[j].calls <= jobs[j].maxRetries
    /\ \A k \in 1..Len(jobs[j].outcomes) :
         /\ k < jobs[j].calls => jobs[j].outcomes[k] = "network"
         /\ jobs[j].outcomes[k] = "other" =>
              /\ k = jobs[j].calls
              /\ jobs[j].status = "FAILED"
              /\ jobs[j].settled = "rejected"

C14_Witness ==
  \E j \in 1..Len(jobs) :
    /\ jobs[j].maxRetries = MaxRetries
    /\ jobs[j].calls = MaxRetries
    /\ jobs[j].outcomes[1] = "network"
    /\ jobs[j].outcomes[Len(jobs[j].outcomes)] = "other"
    /\ Len(jobs[j].outcomes) = jobs[j].calls
    /\ jobs[j].settled = "rejected"

\* C15: the 'get-env' handler only exposes the allowed environment
\* variables: for a requested key that is not in allowedEnvVars the handler
\* returns undefined, whatever process.env holds.
C15_OnlyAllowedExposed ==
  LET r == mainProcess.getEnv
  IN (r.key # << >> /\ r.key \notin allowedEnvVars) => r.value = << >>

\* C16: the 'write-to-clipboard' handler never rejects; it returns
\* {success: true} only if, in one of at most 3 write attempts, the clipboard
\* read back after the write equalled the requested text, and otherwise
\* returns {success: false, error}.
C16_SuccessOnlyIfReadBack ==
  LET w == mainProcess.write
  IN w.requested =>
       /\ w.settled = "fulfilled"
       /\ w.writes <= HandlerMaxRetries
       /\ w.success =>
            /\ w.arg.isString
            /\ w.writes \in 1..HandlerMaxRetries
            /\ w.outcomes[w.writes] = "match"
            /\ systemClipboard = w.arg.text
       /\ ~w.success => w.error

\* The third attempt is the first whose read-back equals the text.
C16_Witness ==
  LET w == mainProcess.write
  IN /\ w.requested
     /\ w.success
     /\ w.writes = HandlerMaxRetries
     /\ w.outcomes[1] = "mismatch"
     /\ w.outcomes[2] = "throw"
     /\ w.arg.text # Empty

\* C18: the selected microphone is remembered between application sessions:
\* once the application was closed and started again and has listed the
\* microphones, the selected microphone is the one the user selected before,
\* when that one is still available.
C18_MicrophoneRemembered ==
  ( /\ app.running
    /\ app.restarted
    /\ app.hasInitialized
    /\ InList(app.userSelected, app.devices) )
  => app.selectedMicrophoneId = app.userSelected

\* C19: pressing the global start hotkey while the window is minimized or in
\* the background brings the window to focus and delivers a start-recording
\* event to the renderer.
C19_HotkeyFocusesWindow ==
  LET h == mainProcess.hotkey
  IN (h.pressed /\ (h.minimized \/ ~h.focused))
       => (h.delivered /\ h.focusedAfter /\ ~h.minimizedAfter)

\* C20: every promise returned by copyToClipboard eventually resolves, true
\* or false, whatever copyToClipboard, clearClipboardData and
\* startNewSession calls follow, when every clipboard call returns and every
\* timer fires: once no call to the main process is outstanding and no
\* timer is pending, no promise is left pending.
C20_PromiseResolves ==
  (passes = << >> /\ tasks = << >> /\ timers = << >>)
    => \A o \in 1..Len(ops) : ops[o].resolved # "pending"

\* Nothing is under way: no call to the main process or to the clipboard of
\* the browser is outstanding, no timer is pending, no transcription request
\* is outstanding and no event of a media device is due.
Quiescent ==
  /\ passes = << >> /\ tasks = << >> /\ timers = << >>
  /\ \A j \in 1..Len(jobs) : jobs[j].pc # "transcribe"
  /\ \A k \in 1..Len(recordings) : recordings[k].state \notin {"starting", "stopping"}

\* C21: every stopped recording leaves the processing state: once the
\* transcription request has returned, the clipboard calls have returned and
\* the timers have fired, isProcessing is false again.
C21_ProcessingEnds == Quiescent => ~recorder.isProcessing

\* C22: a pass that finishes an operation (success, focus-loss completion
\* or final failure) takes out of the queue that very operation and no
\* other one, whatever copy, clear or new-session calls ran while it waited.
C22_RemovesAttempted ==
  \A i \in Events("success") \cup Events("focusLoss") \cup Events("finalFailure") :
    trace[i].removed \in {0, trace[i].op}

\* C23: an operation that has completed successfully is not written to the
\* system clipboard again and its onSuccess callback runs at most once,
\* whatever focus and visibility events follow.
C23_CompletedOnce ==
  /\ \A o \in 1..Len(ops) : ops[o].nSuccess <= 1
  /\ \A i \in Events("sysWrite") :
       LET later == { j \in Events("success") \cup Events("focusLoss") :
                        j > i /\ trace[j].op = trace[i].op }
       IN ops[trace[i].op].nSuccess = Cardinality(later)

\* C24: the session id the onstop handler passes to processAudio in
\* options.sessionId is the id of the recording's job, and so the id under
\* which its clipboard operation is enqueued and its fallback copy stored.
C24_PassedSessionUsed ==
  \A k \in 1..Len(recordings) :
    recordings[k].job # 0 =>
      LET job == jobs[recordings[k].job]
      IN /\ job.sessionId = recordings[k].sessionId
         /\ job.op # 0 => ops[job.op].sessionId = recordings[k].sessionId

\* C25: a job that waits for its transcription while the processor starts
\* a new session (directly, through reset or through a later processAudio)
\* is marked FAILED, so that its promise rejects, and it enqueues no
\* clipboard write: the operation of a job was enqueued with no session
\* started since the job's own.
C25_CancelledJobFails ==
  \A j \in 1..Len(jobs) :
    /\ (jobs[j].pc \in {"transcribe", "retryWait"} /\ nextSession > jobs[j].sessionId + 1)
          => jobs[j].status = "FAILED"
    /\ jobs[j].op # 0 => ops[jobs[j].op].epoch = jobs[j].sessionId + 1

\* C26: the processor and the clipboard manager name the same current
\* session in every state, whatever startNewSession, reset and
\* processAudio calls the processor received.
C26_SameSession == processor.currentSessionId = currentSessionId

\* processAudio started a session and reset started the next one while the
\* job was waiting for its transcription.
C26_Witness ==
  /\ Len(jobs) = 1
  /\ jobs[1].pc = "transcribe"
  /\ jobs[1].status = "TRANSCRIBING"
  /\ jobs[1].sessionId < processor.currentSessionId
  /\ processor.currentSessionId = nextSession - 1

\* C27: clearClipboardData(s) takes out of the queue exactly the operations
\* of session s, clears lastOperation only if it belongs to s, removes the
\* record in localStorage only if it was stored under s, and leaves
\* currentSessionId as it was.
C27_ClearsOnlyItsSession ==
  \A i \in Events("clear") :
    LET e == trace[i]
        Keep(o) == ops[o].sessionId # e.sessionId
        savedData == e.localStorage.lastTranscriptionData
    IN /\ operationQueue = SelectSeq(e.queue, Keep)
       /\ lastOperation =
            IF e.lastOperation # 0 /\ ~Keep(e.lastOperation) THEN 0 ELSE e.lastOperation
       /\ localStorage =
            IF savedData # << >> /\ savedData[1].sessionId = e.sessionId
            THEN [lastTranscription |-> << >>, lastTranscriptionData |-> << >>]
            ELSE e.localStorage
       /\ currentSessionId = e.currentSessionId

\* The call found operations of two sessions in the queue, removed those of
\* its session and left the record another session stored.
C27_Witness ==
  \E i \in Events("clear") :
    /\ operationQueue # << >>
    /\ Len(operationQueue) < Len(trace[i].queue)
    /\ localStorage.lastTranscriptionData # << >>

\* C28: when ClipboardManager.startNewSession has returned, the queue is
\* empty, lastOperation is null and currentSessionId is an id that no
\* earlier call generated.
C28_FreshSession ==
  \A i \in Events("newSession") :
    /\ operationQueue = << >>
    /\ lastOperation = 0
    /\ currentSessionId \notin trace[i].sessions

\* The call found an operation in the queue that was also the last one.
C28_Witness ==
  \E i \in Events("newSession") :
    /\ trace[i].queue # << >>
    /\ trace[i].lastOperation # 0
    /\ operationQueue = << >>

C30_UnsubscribeRemoves ==
  /\ app.invoked.removed = {}
  /\ Len(app.listeners.start) + Len(app.listeners.stop) <=
       Cardinality({ n \in 1..Len(app.subscriptions) :
                       ~app.subscriptions[n].unsubscribed })

\* What the mapping leaves under the plain name, given the test that tells
\* whether a variable counts as set.
Resolved(loaded, n, IsSet(_)) ==
  IF IsSet(loaded[Plain(n)]) THEN loaded[Plain(n)]
  ELSE IF IsSet(loaded[MainVite(n)]) THEN loaded[MainVite(n)]
  ELSE IF IsSet(loaded[Vite(n)]) THEN loaded[Vite(n)]
  ELSE loaded[Plain(n)]

Defined(value) == value # << >>

\* C31, as stated: for each of the four names, a value set under the plain
\* name is kept; otherwise the MAIN_VITE_ value is used if it is set, and
\* the VITE_ value only if neither of the other two is set.
C31_SetValueKept ==
  mainProcess.mapped =>
    \A n \in ConfigNames :
      mainProcess.env[Plain(n)] = Resolved(mainProcess.loaded, n, Defined)

\* C31, amended: the same with "set" read as "set to a non-empty value"; a
\* variable set to the empty string counts as unset, and the prefixed
\* variables themselves are left as they were.
C31_NonEmptyValueKept ==
  mainProcess.mapped =>
    /\ \A n \in ConfigNames :
         mainProcess.env[Plain(n)] = Resolved(mainProcess.loaded, n, Truthy)
    /\ \A n \in ConfigNames :
         \A k \in {MainVite(n), Vite(n)} :
           mainProcess.env[k] = mainProcess.loaded[k]

\* The mapping ran with both prefixed variables of an option set and the
\* plain one unset, and with a plain API key that it kept.
C31_Witness ==
  /\ mainProcess.mapped
  /\ \E n \in ConfigNames \ {"OPENAI_API_KEY"} :
       /\ mainProcess.loaded[Plain(n)] = << >>
       /\ Truthy(mainProcess.loaded[Vite(n)])
       /\ mainProcess.env[Plain(n)] = <<MainVite(n)>>
  /\ mainProcess.env[Plain("OPENAI_API_KEY")] = <<Plain("OPENAI_API_KEY")>>
  /\ Truthy(mainProcess.loaded[MainVite("OPENAI_API_KEY")])

====
